---- MODULE Spec2Model ----
(***************************************************************************)
(* Model of the Aider MCP server's output recovery: the process runner,    *)
(* the chat-history tailer and the marker classifier.                      *)
(*                                                                         *)
(* Text is a sequence of lexemes.  Every literal of the regular            *)
(* expressions in the source is one lexeme, and the remaining lexemes      *)
(* stand for the character classes the expressions tell apart (white       *)
(* space, upper-case initial, letters only, digits).                       *)
(***************************************************************************)
EXTENDS Integers, Sequences, FiniteSets, TLC

\* ------------------------------------------------------------------ text

NL == "\n"
SP == " "
OPEN == "<summary>"
CLOSE == "</summary>"
LITELLM == "litellm."
ERR == "Error:"
EXC == "Exception:"
TB == "Traceback (most recent call last):"
HTTP == "HTTP"
D3 == "500"
UW == "Value"
LW == "x"
\* a character of two UTF-8 bytes and one UTF-16 code unit (e-acute)
MB == "e'"

Alphabet == {NL, SP, OPEN, CLOSE, LITELLM, ERR, EXC, TB, HTTP, D3, UW, LW, MB}

\* what is left of a lexeme when a slice starts inside it
FragLower == "alue"
FragUpper == "TTP"
FragOther == "#"

Fragment(t) == IF t = UW THEN FragLower ELSE IF t = HTTP THEN FragUpper ELSE FragOther

\* \s
IsSpace(t) == t \in {NL, SP}

\* a lexeme made of [A-Za-z] only
IsLetters(t) == t \in {HTTP, UW, LW, FragLower, FragUpper}

\* a lexeme whose first character is in [A-Z]
IsUpperInitial(t) == t \in {ERR, EXC, TB, HTTP, UW, FragUpper}

\* length in UTF-16 code units, the unit of String.prototype.slice
Units(t) ==
  CASE t = OPEN -> 9 [] t = CLOSE -> 10 [] t = LITELLM -> 8 [] t = ERR -> 6
    [] t = EXC -> 10 [] t = TB -> 34 [] t = HTTP -> 4 [] t = D3 -> 3
    [] t = UW -> 5 [] OTHER -> 1

\* length in UTF-8 bytes, the unit of fs.Stats.size
Bytes(t) == IF t = MB THEN 2 ELSE Units(t)

RECURSIVE ByteSize(_)
ByteSize(s) == IF s = << >> THEN 0 ELSE Bytes(Head(s)) + ByteSize(Tail(s))

RECURSIVE UnitLength(_)
\* content.length, counted in code units
UnitLength(s) == IF s = << >> THEN 0 ELSE Units(Head(s)) + UnitLength(Tail(s))

RECURSIVE SliceOrWhole(_, _)
\* variant: a start offset beyond the end falls back to the whole content
SliceOrWhole(s, start) ==
  IF start > UnitLength(s) THEN s
  ELSE IF s = << >> THEN << >>
  ELSE IF start <= 0 THEN s
  ELSE IF start >= Units(Head(s))
       THEN SliceOrWhole(Tail(s), start - Units(Head(s)))
  ELSE <<Fragment(Head(s))>> \o Tail(s)

RECURSIVE Slice(_, _)
\* content.slice(start), start counted in code units
Slice(s, start) ==
  IF s = << >> THEN << >>
  ELSE IF start <= 0 THEN s
  ELSE IF start >= Units(Head(s)) THEN Slice(Tail(s), start - Units(Head(s)))
  ELSE <<Fragment(Head(s))>> \o Tail(s)

Min(S) == CHOOSE x \in S : \A y \in S : x <= y

Max(S) == CHOOSE x \in S : \A y \in S : x >= y

\* s.slice(from - 1) in 1-based positions
Drop(s, n) == IF n >= Len(s) THEN << >> ELSE SubSeq(s, n + 1, Len(s))

\* index of the first position >= i that is not white space (Len(s)+1 if none)
SkipSpace(s, i) ==
  LET stop == {j \in i..Len(s) : ~IsSpace(s[j])}
  IN IF stop = {} THEN Len(s) + 1 ELSE Min(stop)

\* index of the first position >= i that is not a letters lexeme
SkipLetters(s, i) ==
  LET stop == {j \in i..Len(s) : ~IsLetters(s[j])}
  IN IF stop = {} THEN Len(s) + 1 ELSE Min(stop)

\* String.prototype.trim
Trim(s) ==
  LET keep == {j \in 1..Len(s) : ~IsSpace(s[j])}
  IN IF keep = {} THEN << >> ELSE SubSeq(s, Min(keep), Max(keep))

\* variant: white space is left as it is
KeepSpace(s) == s

\* s.replace(/\s+/g, ' '): every white-space run becomes one space
RECURSIVE CollapseSpace(_)
CollapseSpace(s) ==
  IF s = << >> THEN << >>
  ELSE IF IsSpace(Head(s))
       THEN <<SP>> \o CollapseSpace(Drop(s, SkipSpace(s, 1) - 1))
       ELSE <<Head(s)>> \o CollapseSpace(Tail(s))

\* ------------------------------------------------- regular expressions
\* A match is [from, to, cap]: the lexemes from..to are the matched text
\* (match[0]) and cap is the captured group the code reads (match[1]).

NoMatch == [from |-> 0, to |-> 0, cap |-> << >>]

\* /\n<summary>\s*(.*?)\s*<\/summary>/s tried at position i
SummaryAt(s, i) ==
  IF i + 1 > Len(s) \/ s[i] # NL \/ s[i + 1] # OPEN THEN NoMatch
  ELSE LET q0 == SkipSpace(s, i + 2)
           ends == {p \in q0..Len(s) :
                      LET c == SkipSpace(s, p) IN c <= Len(s) /\ s[c] = CLOSE}
       IN IF ends = {} THEN NoMatch
          ELSE LET p == Min(ends)
               IN [from |-> i, to |-> SkipSpace(s, p),
                   cap |-> SubSeq(s, q0, p - 1)]

\* position after the fixed head of error pattern k when it matches at i, else 0
HeadEnd(k, s, i) ==
  CASE k = 1 -> \* litellm\.[A-Za-z]*Error:
         IF s[i] # LITELLM THEN 0
         ELSE LET j == SkipLetters(s, i + 1)
              IN IF j <= Len(s) /\ s[j] = ERR THEN j + 1 ELSE 0
    [] k = 2 -> \* ([A-Za-z]*Exception):
         LET j == SkipLetters(s, i)
         IN IF j <= Len(s) /\ s[j] = EXC THEN j + 1 ELSE 0
    [] k = 3 -> \* ([A-Za-z]*Error):
         LET j == SkipLetters(s, i)
         IN IF j <= Len(s) /\ s[j] = ERR THEN j + 1 ELSE 0
    [] k = 4 -> \* Traceback \(most recent call last\):
         IF s[i] = TB THEN i + 1 ELSE 0
    [] k = 5 -> \* HTTP\s+\d{3}\s+Error:
         IF s[i] # HTTP \/ i + 1 > Len(s) \/ ~IsSpace(s[i + 1]) THEN 0
         ELSE LET j == SkipSpace(s, i + 1)
              IN IF j + 1 > Len(s) \/ s[j] # D3 \/ ~IsSpace(s[j + 1]) THEN 0
                 ELSE LET j2 == SkipSpace(s, j + 1)
                      IN IF j2 <= Len(s) /\ s[j2] = ERR THEN j2 + 1 ELSE 0

\* (?=\n\n|\n[A-Z]|\n$|$) at position q
Lookahead(s, q) ==
  \/ q = Len(s) + 1
  \/ /\ s[q] = NL
     /\ \/ q = Len(s)
        \/ s[q + 1] = NL
        \/ IsUpperInitial(s[q + 1])

\* patterns 1..3 have \s* after the colon, patterns 4 and 5 do not
SkipsSpaceAfterHead(k) == k \in {1, 2, 3}

\* error pattern k tried at position i
ErrorAt(k, s, i) ==
  LET h == HeadEnd(k, s, i)
  IN IF h = 0 THEN NoMatch
     ELSE LET q0 == IF SkipsSpaceAfterHead(k) THEN SkipSpace(s, h) ELSE h
              e == Min({q \in q0..(Len(s) + 1) : Lookahead(s, q)})
          IN [from |-> i, to |-> e - 1, cap |-> SubSeq(s, q0, e - 1)]

\* pattern 0 is the summary block, 1..5 the errorPatterns array in order
MatchAt(k, s, i) == IF k = 0 THEN SummaryAt(s, i) ELSE ErrorAt(k, s, i)

ErrorPatterns == 1..5

\* String.prototype.matchAll with a /g pattern: leftmost match at or after
\* lastIndex, then on from the end of that match
RECURSIVE MatchAllFrom(_, _, _)
MatchAllFrom(k, s, lastIndex) ==
  LET starts == {i \in lastIndex..Len(s) : MatchAt(k, s, i).from # 0}
  IN IF starts = {} THEN << >>
     ELSE LET m == MatchAt(k, s, Min(starts))
          IN <<m>> \o MatchAllFrom(k, s, m.to + 1)

MatchAll(k, s) == MatchAllFrom(k, s, 1)

MatchText(s, m) == SubSeq(s, m.from, m.to)

\* ------------------------------------------------------------ classifier

\* JavaScript null
Null == <<"null">>

\* the value of a property that a string does not have
Undefined == <<"undefined">>

\* errorPatterns in array order that have at least one match
MatchingPatterns(chatContent) ==
  {k \in ErrorPatterns : MatchAll(k, chatContent) # << >>}

\* variant: the array walked from its end
LastMatchingPattern(chatContent) == Max(MatchingPatterns(chatContent))

\* the for loop over errorPatterns: the first pattern with a match decides
FirstMatchingPattern(chatContent) == Min(MatchingPatterns(chatContent))

\* variant: the first match instead of the last
FirstOfMatches(matches) == matches[1]

\* errorMatches[errorMatches.length - 1]
LastMatch(matches) == matches[Len(matches)]

\* variant: the error patterns tried before the summary block
parseErrorsFirst(chatContent) ==
  IF MatchingPatterns(chatContent) # {}
  THEN LET pattern == FirstMatchingPattern(chatContent)
           lastErrorMatch == LastMatch(MatchAll(pattern, chatContent))
       IN [type |-> "error",
           content |-> Trim(CollapseSpace(Trim(MatchText(chatContent, lastErrorMatch))))]
  ELSE IF Len(MatchAll(0, chatContent)) > 0
       THEN [type |-> "summary",
             content |-> Trim(LastMatch(MatchAll(0, chatContent)).cap)]
       ELSE [type |-> "none", content |-> << >>]

parseLatestConversation(chatContent) ==
  LET summarizeMatches == MatchAll(0, chatContent)
  IN IF Len(summarizeMatches) > 0
     THEN [type |-> "summary",
           content |-> Trim(LastMatch(summarizeMatches).cap)]
     ELSE IF MatchingPatterns(chatContent) # {}
          THEN LET pattern == FirstMatchingPattern(chatContent)
                   lastErrorMatch == LastMatch(MatchAll(pattern, chatContent))
                   errorContent == Trim(MatchText(chatContent, lastErrorMatch))
               IN [type |-> "error",
                   content |-> Trim(CollapseSpace(errorContent))]
          ELSE [type |-> "none", content |-> << >>]

\* the string "" that extractNewChatContent returns in place of an object
EmptyString == [type |-> "undefined", content |-> Undefined]

\* recoveredResult && recoveredResult.content && recoveredResult.content.trim()
HasContent(recoveredResult) ==
  /\ recoveredResult # EmptyString
  /\ recoveredResult.content # << >>
  /\ Trim(recoveredResult.content) # << >>

\* variant: only the summary is looked at
analyzeSummaryOnly(truncatedOutput, recoveredResult) ==
  LET summary == IF HasContent(recoveredResult) /\ recoveredResult.type = "summary"
                 THEN Trim(recoveredResult.content) ELSE Null
  IN [summary |-> summary, error |-> Null, successful |-> (summary # Null)]

\* variant: successful means that no error was found
analyzeSuccessIsNoError(truncatedOutput, recoveredResult) ==
  LET summary == IF HasContent(recoveredResult) /\ recoveredResult.type = "summary"
                 THEN Trim(recoveredResult.content) ELSE Null
      error == IF HasContent(recoveredResult) /\ recoveredResult.type = "error"
               THEN Trim(recoveredResult.content) ELSE Null
  IN [summary |-> summary, error |-> error, successful |-> (error = Null)]

\* variant: the summary is filled from any content, whatever its type
analyzeAnyContentIsSummary(truncatedOutput, recoveredResult) ==
  LET summary == IF HasContent(recoveredResult)
                 THEN Trim(recoveredResult.content) ELSE Null
      error == IF HasContent(recoveredResult) /\ recoveredResult.type = "error"
               THEN Trim(recoveredResult.content) ELSE Null
  IN [summary |-> summary, error |-> error,
      successful |-> (summary # Null /\ error = Null)]

\* variant: the content is taken without the test that it is non-empty
analyzeEmptyContentCounts(truncatedOutput, recoveredResult) ==
  LET summary == IF recoveredResult.type = "summary"
                 THEN Trim(recoveredResult.content) ELSE Null
      error == IF recoveredResult.type = "error"
               THEN Trim(recoveredResult.content) ELSE Null
  IN [summary |-> summary, error |-> error,
      successful |-> (summary # Null /\ error = Null)]

analyzeCompleteOutput(truncatedOutput, recoveredResult) ==
  LET summary == IF HasContent(recoveredResult) /\ recoveredResult.type = "summary"
                 THEN Trim(recoveredResult.content) ELSE Null
      error == IF HasContent(recoveredResult) /\ recoveredResult.type = "error"
               THEN Trim(recoveredResult.content) ELSE Null
  IN [summary |-> summary, error |-> error,
      successful |-> (summary # Null /\ error = Null)]

\* new EnhancedAiderResult({...})
EnhancedAiderResult(analysis) ==
  [summary |-> analysis.summary, error |-> analysis.error,
   executionSuccessful |-> analysis.successful]

\* JavaScript truthiness of a nullable string
Truthy(v) == v # Null /\ v # << >>

\* the emoji that start the four messages are written [!], [S], [ok], [x]
ErrorDetected == "[!] Error Detected:\n"
SummaryAvailable == "[S] Summary:\n"
SuccessNoSummary == "[ok] Aider completed successfully (no summary generated)"
RanNoSummary == "[x] Aider execution completed but no summary was generated"

\* variant: the execution flag is looked at before the error and the summary
formatSuccessFirst(result) ==
  IF result.executionSuccessful THEN <<SuccessNoSummary>>
  ELSE IF Truthy(result.error) THEN <<ErrorDetected>> \o result.error
  ELSE IF Truthy(result.summary) THEN <<SummaryAvailable>> \o result.summary
  ELSE <<RanNoSummary>>

formatEnhancedOutput(result) ==
  IF Truthy(result.error) THEN <<ErrorDetected>> \o result.error
  ELSE IF Truthy(result.summary) THEN <<SummaryAvailable>> \o result.summary
  ELSE IF result.executionSuccessful THEN <<SuccessNoSummary>>
  ELSE <<RanNoSummary>>

\* ------------------------------------------------- classifier pipeline
\* parseLatestConversation, analyzeCompleteOutput and formatEnhancedOutput
\* applied in the order executeAiderWithRecovery and executeAiderCommand
\* apply them, on every suffix built from at most MaxPieces pieces.

VARIABLES chatContent, stage, recoveredContent, analysis, formattedOutput

parseVars == <<chatContent, stage, recoveredContent, analysis, formattedOutput>>

\* the state of the tool calls, which the pipeline on its own leaves alone
VARIABLES history, call, thread, appended, disturbed

machineVars == <<history, call, thread, appended, disturbed>>

VARIABLES startDir, gitDirs, dir, gitStage, gitRoot, chatHistoryPath

gitVars == <<startDir, gitDirs, dir, gitStage, gitRoot, chatHistoryPath>>

\* the one tool call of the Codex server (src/server.js), a separate program
VARIABLES codex

codexVars == <<codex>>

MaxPieces == 3

\* lexemes and the short lexeme groups the patterns of the source look for
Pieces ==
  {<<NL>>, <<SP>>, <<OPEN>>, <<CLOSE>>, <<LITELLM>>, <<ERR>>, <<EXC>>, <<TB>>,
   <<HTTP>>, <<D3>>, <<UW>>, <<LW>>,
   <<NL, OPEN>>, <<NL, OPEN, LW, CLOSE>>, <<NL, OPEN, UW, CLOSE>>,
   <<HTTP, SP, D3, SP, ERR>>, <<LITELLM, UW, ERR>>, <<UW, ERR>>, <<UW, EXC>>,
   <<LW, NL>>, <<EXC, LW, NL>>}

RECURSIVE Concat(_)
Concat(ps) == IF ps = << >> THEN << >> ELSE Head(ps) \o Concat(Tail(ps))

Suffixes == {Concat(ps) : ps \in UNION {[1..n -> Pieces] : n \in 0..MaxPieces}}

Unset == [type |-> "unset", content |-> << >>]

NoAnalysis == [summary |-> Null, error |-> Null, successful |-> FALSE]

\* the suffix to classify, nothing computed yet
ParseStart ==
  /\ chatContent \in Suffixes
  /\ stage = "suffix"
  /\ recoveredContent = Unset
  /\ analysis = NoAnalysis
  /\ formattedOutput = << >>

ParseLatestConversation ==
  /\ stage = "suffix"
  /\ recoveredContent' = parseLatestConversation(chatContent)
  /\ stage' = "classified"
  /\ UNCHANGED <<chatContent, analysis, formattedOutput, machineVars, gitVars, codexVars>>

AnalyzeCompleteOutput ==
  /\ stage = "classified"
  /\ analysis' = analyzeCompleteOutput(<< >>, recoveredContent)
  /\ stage' = "analyzed"
  /\ UNCHANGED <<chatContent, recoveredContent, formattedOutput, machineVars, gitVars, codexVars>>

FormatEnhancedOutput ==
  /\ stage = "analyzed"
  /\ formattedOutput' = formatEnhancedOutput(EnhancedAiderResult(analysis))
  /\ stage' = "formatted"
  /\ UNCHANGED <<chatContent, recoveredContent, analysis, machineVars, gitVars, codexVars>>

\* ------------------------------------------------------ tool invocation
\* executeAiderCommand -> executeAiderWithRecovery -> executeAider for NCalls
\* tool calls served by one Node.js event loop.  thread is the call whose
\* synchronous code is running (0 when the loop is idle); child processes
\* and other programs touch the chat-history file at any time.

vars == <<chatContent, stage, recoveredContent, analysis, formattedOutput,
          history, call, thread, appended, disturbed,
          startDir, gitDirs, dir, gitStage, gitRoot, chatHistoryPath, codex>>

NCalls == 2

Calls == 1..NCalls

\* pieces appended to the chat history by all children together
MaxAppends == 2

\* truncations and removals of the chat history by other programs
MaxDisturb == 1

\* if (files.length > 10)
MaxFiles == 10

\* what a child appends to .aider.chat.history.md in one write
SummaryBlock == <<NL, OPEN, NL, LW, NL, CLOSE, NL>>
TracebackText == <<TB, NL, SP, LW, NL, UW, ERR, SP, LW, SP, LW>>
PlainText == <<LW, NL>>
TagAtStart == <<OPEN, UW, CLOSE, NL>>

LogPieces == {SummaryBlock, TracebackText, PlainText, TagAtStart}

\* contents of the chat history left by earlier sessions
InitialLogs == {<< >>, <<LW, NL>>, <<MB, NL>>}

NoFile == [exists |-> FALSE, content |-> << >>]

FileWith(content) == [exists |-> TRUE, content |-> content]

\* arguments of a tool call that the handler branches on
Requests ==
  {[workingDir |-> "/repo", files |-> 0, architectMode |-> FALSE],
   [workingDir |-> "/repo", files |-> 0, architectMode |-> TRUE],
   [workingDir |-> "/", files |-> 0, architectMode |-> FALSE],
   [workingDir |-> "/", files |-> MaxFiles + 1, architectMode |-> FALSE],
   [workingDir |-> "/repo", files |-> MaxFiles + 1, architectMode |-> FALSE]}

\* the requests call i is tried with: aider_architect (architectMode) is
\* exercised by the first call, aider_execute by every call
RequestsOf(i) == {req \in Requests : req.architectMode => i = 1}

NoResult == [summary |-> Null, error |-> Null, executionSuccessful |-> FALSE]

IdleCall ==
  [pc |-> "idle", workingDir |-> "", files |-> 0, architectMode |-> FALSE,
   endBefore |-> "", lateError |-> FALSE, preSize |-> 0, existedBefore |-> FALSE, statFailed |-> FALSE,
   child |-> "none", events |-> {}, code |-> 0, stderr |-> << >>,
   settled |-> "pending",
   existedAfter |-> FALSE, readFailed |-> FALSE, window |-> << >>,
   lengthBefore |-> 0, epochBefore |-> 0, sizeAfter |-> 0, appendedText |-> Null,
   recovered |-> Unset, result |-> NoResult, text |-> << >>, steps |-> << >>]

RootForbidden == "[stop] ERROR: Cannot execute Aider in the root directory for safety reasons. Please specify a valid project directory."
TooManyFiles == "[stop] ERROR: Too many files specified. Aider supports a maximum of 10 files per command to ensure performance and reliability."
ErrorExecuting == "Error executing Aider "
ExitedWithCode == "Aider CLI exited with code "
FailedToSpawn == "Failed to spawn Aider CLI: "
SpawnENOENT == "spawn aider ENOENT"
CommandNotFound == "command not found"
TypeErrorLength == "Cannot read properties of undefined (reading 'length')"

CodeText(code) == IF code = 1 THEN "1" ELSE IF code = 0 THEN "0" ELSE "-2"

\* const mode = architectMode ? "architect mode" : "CLI"
Mode(architectMode) == IF architectMode THEN "architect mode" ELSE "CLI"

\* the catch block of executeAiderCommand
CaughtText(architectMode, message) ==
  <<ErrorExecuting, Mode(architectMode), ": ">> \o message

MachineInit ==
  /\ history \in {NoFile} \cup {FileWith(c) : c \in InitialLogs}
  /\ call = [i \in Calls |-> IdleCall]
  /\ thread = 0
  /\ appended = 0
  /\ disturbed = 0

ParseIdle ==
  /\ chatContent = << >>
  /\ stage = "suffix"
  /\ recoveredContent = Unset
  /\ analysis = NoAnalysis
  /\ formattedOutput = << >>

\* no directory walk in progress
GitIdle ==
  /\ startDir = << >>
  /\ gitDirs = {}
  /\ dir = << >>
  /\ gitStage = "idle"
  /\ gitRoot = Null
  /\ chatHistoryPath = Null

NoResponse == [isError |-> FALSE, text |-> << >>]

IdleCodex ==
  [pc |-> "idle", tool |-> "", child |-> "none", events |-> {}, code |-> "",
   lateError |-> FALSE, stdout |-> << >>, stderr |-> << >>,
   settled |-> "pending", message |-> << >>, response |-> NoResponse]

\* no Codex tool call in progress
CodexIdle == codex = IdleCodex

Init == MachineInit /\ ParseIdle /\ GitIdle /\ CodexIdle

Step(i, name) == Append(call[i].steps, name)

\* variant: the argument checks come after the run instead of before it
ToolCallChecksLate(i) ==
  /\ thread = 0
  /\ call[i].pc = "idle"
  /\ \A j \in 1..(i - 1) : call[j].pc # "idle"
  /\ \E req \in RequestsOf(i) :
       call' = [call EXCEPT ![i] =
                  [call[i] EXCEPT !.workingDir = req.workingDir,
                                  !.files = req.files,
                                  !.architectMode = req.architectMode,
                                  !.pc = "stat"]]
  /\ thread' = i
  /\ UNCHANGED <<history, appended, disturbed, parseVars, gitVars, codexVars>>

\* executeAiderCommand up to the call of executeAiderWithRecovery; the calls
\* are numbered in the order in which they arrive
ToolCall(i) ==
  /\ thread = 0
  /\ call[i].pc = "idle"
  /\ \A j \in 1..(i - 1) : call[j].pc # "idle"
  /\ \E req \in RequestsOf(i) :
       LET started == [call[i] EXCEPT !.workingDir = req.workingDir,
                                      !.files = req.files,
                                      !.architectMode = req.architectMode]
       IN IF req.workingDir = "/"
          THEN /\ call' = [call EXCEPT ![i] =
                    [started EXCEPT !.pc = "done", !.text = <<RootForbidden>>]]
               /\ UNCHANGED thread
          ELSE IF req.files > MaxFiles
          THEN /\ call' = [call EXCEPT ![i] =
                    [started EXCEPT !.pc = "done", !.text = <<TooManyFiles>>]]
               /\ UNCHANGED thread
          ELSE /\ call' = [call EXCEPT ![i] = [started EXCEPT !.pc = "stat"]]
               /\ thread' = i
  /\ UNCHANGED <<history, appended, disturbed, parseVars, gitVars, codexVars>>

\* executeAiderWithRecovery: record chat history size before execution
CapturePreSize(i) ==
  /\ thread = i
  /\ call[i].pc = "stat"
  /\ \E statFails \in BOOLEAN :
       /\ statFails => history.exists
       /\ call' = [call EXCEPT
            ![i].pc = "spawn",
            ![i].existedBefore = history.exists,
            ![i].statFailed = statFails,
            ![i].preSize = IF history.exists /\ ~statFails
                           THEN ByteSize(history.content) ELSE 0,
            ![i].lengthBefore = Len(history.content),
            ![i].endBefore = IF history.content = << >> THEN ""
                             ELSE history.content[Len(history.content)],
            ![i].epochBefore = disturbed,
            ![i].steps = Step(i, "preSize")]
  /\ UNCHANGED <<history, thread, appended, disturbed, parseVars, gitVars, codexVars>>

\* variant: the promise of executeAider is not awaited
SpawnNotAwaited(i) ==
  /\ thread = i
  /\ call[i].pc = "spawn"
  /\ call' = [call EXCEPT
       ![i].pc = "delay", ![i].child = "running", ![i].steps = Step(i, "spawn")]
  /\ thread' = 0
  /\ UNCHANGED <<history, appended, disturbed, parseVars, gitVars, codexVars>>

\* executeAider: spawn, then the promise is awaited
Spawn(i) ==
  /\ thread = i
  /\ call[i].pc = "spawn"
  /\ \E started \in BOOLEAN :
       call' = [call EXCEPT
         ![i].pc = "await",
         ![i].child = IF started THEN "running" ELSE "failed",
         ![i].events = IF started THEN {} ELSE {"error", "close"},
         ![i].code = IF started THEN 0 ELSE 0 - 2,
         ![i].steps = Step(i, "spawn")]
  /\ thread' = 0
  /\ UNCHANGED <<history, appended, disturbed, parseVars, gitVars, codexVars>>

\* the child appends to the chat history while it runs
ChildAppend(i) ==
  /\ call[i].child = "running"
  /\ appended < MaxAppends
  /\ \E piece \in LogPieces :
       history' = FileWith(history.content \o piece)
  /\ appended' = appended + 1
  /\ UNCHANGED <<call, thread, disturbed, parseVars, gitVars, codexVars>>

\* the child terminates and its streams end
ChildExit(i) ==
  /\ call[i].child = "running"
  /\ \E code \in {0, 1} :
       call' = [call EXCEPT
         ![i].child = "exited",
         ![i].events = @ \cup {"close"},
         ![i].code = code,
         ![i].stderr = IF code = 0 THEN << >> ELSE <<CommandNotFound>>]
  /\ UNCHANGED <<history, thread, appended, disturbed, parseVars, gitVars, codexVars>>

\* variant: a nonzero exit code starts the child again
OnCloseRetry(i) ==
  /\ thread = 0
  /\ call[i].events = {"close"}
  /\ IF call[i].settled # "pending"
     THEN /\ call' = [call EXCEPT ![i].events = {}, ![i].steps = Step(i, "close")]
          /\ UNCHANGED thread
     ELSE IF call[i].code = 0
     THEN /\ call' = [call EXCEPT
               ![i].events = {}, ![i].steps = Step(i, "close"),
               ![i].settled = "resolved", ![i].pc = "delay"]
          /\ UNCHANGED thread
     ELSE /\ call' = [call EXCEPT
               ![i].events = {}, ![i].steps = Step(i, "close"),
               ![i].pc = "spawn"]
          /\ thread' = i
  /\ UNCHANGED <<history, appended, disturbed, parseVars, gitVars, codexVars>>

\* variant: the close handler resolves whatever the exit code is
OnCloseAnyCode(i) ==
  /\ thread = 0
  /\ call[i].events = {"close"}
  /\ IF call[i].settled # "pending"
     THEN call' = [call EXCEPT ![i].events = {}, ![i].steps = Step(i, "close")]
     ELSE call' = [call EXCEPT
            ![i].events = {}, ![i].steps = Step(i, "close"),
            ![i].settled = "resolved", ![i].pc = "delay"]
  /\ UNCHANGED <<history, thread, appended, disturbed, parseVars, gitVars, codexVars>>

\* variant: the close handler decides again when the promise is settled
OnCloseOverrides(i) ==
  /\ thread = 0
  /\ call[i].events = {"close"}
  /\ IF call[i].code = 0
     THEN call' = [call EXCEPT
            ![i].events = {}, ![i].steps = Step(i, "close"),
            ![i].settled = "resolved", ![i].pc = "delay"]
     ELSE call' = [call EXCEPT
            ![i].events = {}, ![i].steps = Step(i, "close"),
            ![i].settled = "rejected", ![i].pc = "done",
            ![i].text = CaughtText(call[i].architectMode, <<ExitedWithCode, CodeText(call[i].code), ": ">>
                                   \o call[i].stderr)]
  /\ UNCHANGED <<history, thread, appended, disturbed, parseVars, gitVars, codexVars>>

\* aider.on("close"); a failed spawn emits 'error' before 'close'
OnClose(i) ==
  /\ thread = 0
  /\ call[i].events = {"close"}
  /\ IF call[i].settled # "pending"
     THEN call' = [call EXCEPT ![i].events = {}, ![i].steps = Step(i, "close")]
     ELSE IF call[i].code = 0
     THEN call' = [call EXCEPT
            ![i].events = {}, ![i].steps = Step(i, "close"),
            ![i].settled = "resolved", ![i].pc = "delay"]
     ELSE call' = [call EXCEPT
            ![i].events = {}, ![i].steps = Step(i, "close"),
            ![i].settled = "rejected", ![i].pc = "done",
            ![i].text = CaughtText(call[i].architectMode, <<ExitedWithCode, CodeText(call[i].code), ": ">>
                                   \o call[i].stderr)]
  /\ UNCHANGED <<history, thread, appended, disturbed, parseVars, gitVars, codexVars>>

\* variant: no handler is registered for 'error'
OnErrorUnhandled(i) ==
  /\ thread = 0
  /\ "error" \in call[i].events
  /\ call' = [call EXCEPT ![i].events = @ \ {"error"}]
  /\ UNCHANGED <<history, thread, appended, disturbed, parseVars, gitVars, codexVars>>

\* aider.on("error")
OnError(i) ==
  /\ thread = 0
  /\ "error" \in call[i].events
  /\ IF call[i].settled # "pending"
     THEN call' = [call EXCEPT ![i].events = @ \ {"error"}]
     ELSE call' = [call EXCEPT
            ![i].events = @ \ {"error"},
            ![i].settled = "rejected", ![i].pc = "done",
            ![i].text = CaughtText(call[i].architectMode, <<FailedToSpawn, SpawnENOENT>>)]
  /\ UNCHANGED <<history, thread, appended, disturbed, parseVars, gitVars, codexVars>>

\* await new Promise(resolve => setTimeout(resolve, 100))
SettlingDelay(i) ==
  /\ thread = 0
  /\ call[i].pc = "delay"
  /\ call' = [call EXCEPT ![i].pc = "read", ![i].steps = Step(i, "delay")]
  /\ thread' = i
  /\ UNCHANGED <<history, appended, disturbed, parseVars, gitVars, codexVars>>

\* extractNewChatContent(chatHistoryPath, preSize)
ExtractNewChatContent(i) ==
  /\ thread = i
  /\ call[i].pc = "read"
  /\ \E readFails \in BOOLEAN :
       /\ readFails => history.exists
       /\ IF ~history.exists \/ readFails
          THEN call' = [call EXCEPT
                 ![i].pc = "analyze",
                 ![i].existedAfter = history.exists,
                 ![i].readFailed = readFails,
                 ![i].recovered = EmptyString,
                 ![i].steps = Step(i, "read")]
          ELSE LET newContent == Slice(history.content, call[i].preSize)
               IN call' = [call EXCEPT
                    ![i].pc = "analyze",
                    ![i].existedAfter = TRUE,
                    ![i].window = newContent,
                    ![i].sizeAfter = ByteSize(history.content),
                    ![i].appendedText =
                      IF call[i].epochBefore = disturbed
                      THEN Drop(history.content, call[i].lengthBefore)
                      ELSE Null,
                    ![i].recovered = parseLatestConversation(newContent),
                    ![i].steps = Step(i, "read") \o <<"classify">>]
  /\ UNCHANGED <<history, thread, appended, disturbed, parseVars, gitVars, codexVars>>

\* variant: executeAiderCommand has no catch block around the recovery
ReturnResultUncaught(i) ==
  /\ thread = i
  /\ call[i].pc = "analyze"
  /\ IF call[i].recovered = EmptyString
     THEN call' = [call EXCEPT ![i].pc = "threw"]
     ELSE LET result == EnhancedAiderResult(
                          analyzeCompleteOutput(<< >>, call[i].recovered))
          IN call' = [call EXCEPT
               ![i].pc = "done",
               ![i].result = result,
               ![i].text = formatEnhancedOutput(result),
               ![i].steps = Step(i, "result")]
  /\ thread' = 0
  /\ UNCHANGED <<history, appended, disturbed, parseVars, gitVars, codexVars>>

\* the debug logging, analyzeCompleteOutput, the result and its formatting
ReturnResult(i) ==
  /\ thread = i
  /\ call[i].pc = "analyze"
  /\ IF call[i].recovered = EmptyString
     THEN \* recoveredContent.content.length throws a TypeError
          call' = [call EXCEPT
            ![i].pc = "done", ![i].text = CaughtText(call[i].architectMode, <<TypeErrorLength>>)]
     ELSE LET result == EnhancedAiderResult(
                          analyzeCompleteOutput(<< >>, call[i].recovered))
          IN call' = [call EXCEPT
               ![i].pc = "done",
               ![i].result = result,
               ![i].text = formatEnhancedOutput(result),
               ![i].steps = Step(i, "result")]
  /\ thread' = 0
  /\ UNCHANGED <<history, appended, disturbed, parseVars, gitVars, codexVars>>

\* another program truncates the chat history
Truncate ==
  /\ history.exists
  /\ history.content # << >>
  /\ disturbed < MaxDisturb
  /\ history' = FileWith(<< >>)
  /\ disturbed' = disturbed + 1
  /\ UNCHANGED <<call, thread, appended, parseVars, gitVars, codexVars>>

\* another program removes the chat history
Remove ==
  /\ history.exists
  /\ disturbed < MaxDisturb
  /\ history' = NoFile
  /\ disturbed' = disturbed + 1
  /\ UNCHANGED <<call, thread, appended, parseVars, gitVars, codexVars>>

Next ==
  \/ \E i \in Calls : ToolCall(i)
  \/ \E i \in Calls : CapturePreSize(i)
  \/ \E i \in Calls : Spawn(i)
  \/ \E i \in Calls : ChildAppend(i)
  \/ \E i \in Calls : ChildExit(i)
  \/ \E i \in Calls : OnClose(i)
  \/ \E i \in Calls : OnError(i)
  \/ \E i \in Calls : SettlingDelay(i)
  \/ \E i \in Calls : ExtractNewChatContent(i)
  \/ \E i \in Calls : ReturnResult(i)
  \/ Truncate
  \/ Remove

Spec == Init /\ [][Next]_vars

\* the classifier pipeline on its own, no tool call in progress
ParseInit ==
  /\ ParseStart
  /\ GitIdle
  /\ CodexIdle
  /\ history = NoFile
  /\ call = [i \in Calls |-> IdleCall]
  /\ thread = 0
  /\ appended = 0
  /\ disturbed = 0

ParseNext ==
  \/ ParseLatestConversation
  \/ AnalyzeCompleteOutput
  \/ FormatEnhancedOutput

SpecParse == ParseInit /\ [][ParseNext]_vars

\* ------------------------------------------------ the <summarize> variant
\* The second build of the server in part_001 asks for a <summarize> block
\* and has its own parseLatestConversation, analyzeCompleteOutput and
\* formatEnhancedOutput; their names carry the suffix Summarize here.

OPENZ == "<summarize>"
CLOSEZ == "</summarize>"

\* /\n<summarize>(.*?)<\/summarize>/s tried at position i
SummarizeAt(s, i) ==
  IF i + 1 > Len(s) \/ s[i] # NL \/ s[i + 1] # OPENZ THEN NoMatch
  ELSE LET ends == {p \in (i + 2)..Len(s) : s[p] = CLOSEZ}
       IN IF ends = {} THEN NoMatch
          ELSE [from |-> i, to |-> Min(ends),
                cap |-> SubSeq(s, i + 2, Min(ends) - 1)]

\* the matches that iterating chatContent.matchAll(...) would give
RECURSIVE SummarizeBlocksFrom(_, _)
SummarizeBlocksFrom(s, lastIndex) ==
  LET starts == {i \in lastIndex..Len(s) : SummarizeAt(s, i).from # 0}
  IN IF starts = {} THEN << >>
     ELSE LET m == SummarizeAt(s, Min(starts))
          IN <<m>> \o SummarizeBlocksFrom(s, m.to + 1)

SummarizeBlocks(s) == SummarizeBlocksFrom(s, 1)

\* a property that the object does not have: reading it gives undefined
NoProperty == [defined |-> FALSE, value |-> 0]

\* summarizeBlocks.length: matchAll returns a RegExp String Iterator, which
\* is truthy (so "|| []" never applies) and has no length property
IteratorLength(summarizeBlocks) == NoProperty

\* v > n in JavaScript: undefined > n is false
GreaterThan(v, n) == v.defined /\ v.value > n

parseLatestConversationSummarize(newContent) ==
  LET summarizeBlocks == SummarizeBlocks(newContent)
  IN IF GreaterThan(IteratorLength(summarizeBlocks), 0)
     THEN Trim(LastMatch(summarizeBlocks).cap)
     ELSE << >>

analyzeCompleteOutputSummarize(truncatedOutput, recovered) ==
  LET summary == IF recovered # << >> /\ Trim(recovered) # << >>
                 THEN Trim(recovered) ELSE Null
  IN [summary |-> summary, successful |-> (summary # Null)]

EnhancedAiderResultSummarize(a) ==
  [summary |-> a.summary, executionSuccessful |-> a.successful]

SummaryInline == "[S] Summary: "

formatEnhancedOutputSummarize(result) ==
  IF Truthy(result.summary) THEN <<SummaryInline>> \o result.summary
  ELSE IF result.executionSuccessful THEN <<SuccessNoSummary>>
  ELSE <<RanNoSummary>>

SummarizePieces ==
  {<<NL>>, <<SP>>, <<OPENZ>>, <<CLOSEZ>>, <<LW>>, <<UW>>, <<ERR>>,
   <<NL, OPENZ>>, <<NL, OPENZ, LW, CLOSEZ>>, <<NL, OPENZ, CLOSEZ>>,
   <<NL, OPENZ, NL, UW, SP, LW, NL, CLOSEZ, NL>>}

SummarizeSuffixes ==
  {Concat(ps) : ps \in UNION {[1..n -> SummarizePieces] : n \in 0..MaxPieces}}

\* the string that extractNewChatContent returns
StringResult(s) == [type |-> "string", content |-> s]

\* the text after preSize, nothing computed yet
SummarizeStart ==
  /\ chatContent \in SummarizeSuffixes
  /\ stage = "summarize:suffix"
  /\ recoveredContent = Unset
  /\ analysis = NoAnalysis
  /\ formattedOutput = << >>

ParseLatestConversationSummarize ==
  /\ stage = "summarize:suffix"
  /\ recoveredContent' = StringResult(parseLatestConversationSummarize(chatContent))
  /\ stage' = "summarize:classified"
  /\ UNCHANGED <<chatContent, analysis, formattedOutput, machineVars, gitVars, codexVars>>

AnalyzeCompleteOutputSummarize ==
  /\ stage = "summarize:classified"
  /\ analysis' = analyzeCompleteOutputSummarize(<< >>, recoveredContent.content)
  /\ stage' = "summarize:analyzed"
  /\ UNCHANGED <<chatContent, recoveredContent, formattedOutput, machineVars, gitVars, codexVars>>

FormatEnhancedOutputSummarize ==
  /\ stage = "summarize:analyzed"
  /\ formattedOutput' =
       formatEnhancedOutputSummarize(EnhancedAiderResultSummarize(analysis))
  /\ stage' = "summarize:formatted"
  /\ UNCHANGED <<chatContent, recoveredContent, analysis, machineVars, gitVars, codexVars>>

SummarizeInit ==
  /\ SummarizeStart
  /\ GitIdle
  /\ CodexIdle
  /\ history = NoFile
  /\ call = [i \in Calls |-> IdleCall]
  /\ thread = 0
  /\ appended = 0
  /\ disturbed = 0

SummarizeNext ==
  \/ ParseLatestConversationSummarize
  \/ AnalyzeCompleteOutputSummarize
  \/ FormatEnhancedOutputSummarize

SpecSummarize == SummarizeInit /\ [][SummarizeNext]_vars

\* the classifier pipelines of both variants
VariantsInit == ParseInit \/ SummarizeInit

VariantsNext == ParseNext \/ SummarizeNext

SpecVariants == VariantsInit /\ [][VariantsNext]_vars

\* --------------------------------------------------- the Codex server
\* src/server.js: six tools, each a try/catch around one awaited
\* executeCodexCommand, which spawns "codex" and settles a promise from the
\* child's 'close' and 'error' events.

Tools ==
  {"write_code", "explain_code", "debug_code", "refactor_code",
   "optimize_code", "codex_completion"}

\* the text before ${stdout} in the handler's answer
Title(tool) ==
  CASE tool = "write_code" -> "Code Generation (Python):\n\n"
    [] tool = "explain_code" -> "Code Explanation:\n\n"
    [] tool = "debug_code" -> "Code Debugging:\n\n"
    [] tool = "refactor_code" -> "Code Refactoring:\n\n"
    [] tool = "optimize_code" -> "Code Optimization:\n\n"
    [] tool = "codex_completion" -> "Codex Response (suggest mode):\n\n"

\* the text before ${error.message} in the handler's catch
ErrorTitle(tool) ==
  CASE tool = "write_code" -> "Error generating code: "
    [] tool = "explain_code" -> "Error explaining code: "
    [] tool = "debug_code" -> "Error debugging code: "
    [] tool = "refactor_code" -> "Error refactoring code: "
    [] tool = "optimize_code" -> "Error optimizing code: "
    [] tool = "codex_completion" -> "Error executing Codex CLI: "

ErrorsHeading == "\nErrors:\n"
FailedWithCode == "Codex command failed with code "
SpawnCodexENOENT == "spawn codex ENOENT"
KillFailed == "kill EPERM"

\* what the child writes to one of its streams
Chunks == {<< >>, <<LW>>}

\* exit codes as `${code}` prints them; null after termination by a signal
ExitCodes == {"0", "1", "null"}

\* the handler up to the await: the prompt is built and the child is
\* spawned, which fails asynchronously when there is no codex executable
CodexToolCall ==
  /\ codex.pc = "idle"
  /\ \E tool \in Tools, started \in BOOLEAN :
       codex' = [codex EXCEPT
         !.pc = "await",
         !.tool = tool,
         !.child = IF started THEN "running" ELSE "failed",
         !.events = IF started THEN {} ELSE {"error", "close"},
         !.code = IF started THEN "" ELSE "-2"]
  /\ UNCHANGED <<parseVars, machineVars, gitVars>>

\* child.stdout.on('data') and child.stderr.on('data')
CodexOutput ==
  /\ codex.child = "running"
  /\ codex.stdout = << >>
  /\ codex.stderr = << >>
  /\ \E out \in Chunks, err \in Chunks :
       /\ out \o err # << >>
       /\ codex' = [codex EXCEPT !.stdout = out, !.stderr = err]
  /\ UNCHANGED <<parseVars, machineVars, gitVars>>

\* the child terminates and its streams end
CodexExit ==
  /\ codex.child = "running"
  /\ \E code \in ExitCodes :
       codex' = [codex EXCEPT
         !.child = "exited", !.events = @ \cup {"close"}, !.code = code]
  /\ UNCHANGED <<parseVars, machineVars, gitVars>>

\* variant: the close handler resolves whatever the exit code is
CodexOnCloseAnyCode ==
  /\ codex.events = {"close"}
  /\ IF codex.settled # "pending"
     THEN codex' = [codex EXCEPT !.events = {}]
     ELSE codex' = [codex EXCEPT !.events = {}, !.settled = "resolved"]
  /\ UNCHANGED <<parseVars, machineVars, gitVars>>

\* child.on('close'); a failed spawn emits 'error' before 'close'
CodexOnClose ==
  /\ codex.events = {"close"}
  /\ IF codex.settled # "pending"
     THEN codex' = [codex EXCEPT !.events = {}]
     ELSE IF codex.code = "0"
     THEN codex' = [codex EXCEPT !.events = {}, !.settled = "resolved"]
     ELSE codex' = [codex EXCEPT
            !.events = {}, !.settled = "rejected",
            !.message = <<FailedWithCode, codex.code, ": ">> \o codex.stderr]
  /\ UNCHANGED <<parseVars, machineVars, gitVars>>

\* child.on('error'): reject(error)
CodexOnError ==
  /\ "error" \in codex.events
  /\ IF codex.settled # "pending"
     THEN codex' = [codex EXCEPT !.events = @ \ {"error"}]
     ELSE codex' = [codex EXCEPT
            !.events = @ \ {"error"}, !.settled = "rejected",
            !.message = IF codex.child = "failed" THEN <<SpawnCodexENOENT>>
                        ELSE <<KillFailed>>]
  /\ UNCHANGED <<parseVars, machineVars, gitVars>>

\* variant: the handler has no catch, a rejection leaves it without answer
CodexRespondUncaught ==
  /\ codex.pc = "await"
  /\ codex.settled # "pending"
  /\ IF codex.settled = "resolved"
     THEN codex' = [codex EXCEPT
            !.pc = "done",
            !.response = [isError |-> FALSE,
                          text |-> <<Title(codex.tool)>> \o codex.stdout]]
     ELSE codex' = [codex EXCEPT !.pc = "threw"]
  /\ UNCHANGED <<parseVars, machineVars, gitVars>>

\* the handler after the await: the answer, or the catch
CodexRespond ==
  /\ codex.pc = "await"
  /\ codex.settled # "pending"
  /\ IF codex.settled = "resolved"
     THEN codex' = [codex EXCEPT
            !.pc = "done",
            !.response =
              [isError |-> FALSE,
               text |-> <<Title(codex.tool)>> \o codex.stdout
                          \o (IF codex.stderr # << >>
                              THEN <<ErrorsHeading>> \o codex.stderr
                              ELSE << >>)]]
     ELSE codex' = [codex EXCEPT
            !.pc = "done",
            !.response = [isError |-> TRUE,
                          text |-> <<ErrorTitle(codex.tool)>> \o codex.message]]
  /\ UNCHANGED <<parseVars, machineVars, gitVars>>

\* ------------------------------------------- the two events in any order
\* Node.js also emits 'error' on a child that was spawned (a signal or a
\* message could not be delivered) and does not say whether 'close' comes
\* before or after it.  EmitError and CodexEmitError let one such event
\* arrive at any time in the life of a spawned child.

EmitError(i) ==
  /\ call[i].child \in {"running", "exited"}
  /\ ~call[i].lateError
  /\ call' = [call EXCEPT ![i].lateError = TRUE, ![i].events = @ \cup {"error"}]
  /\ UNCHANGED <<history, thread, appended, disturbed, parseVars, gitVars, codexVars>>

CodexEmitError ==
  /\ codex.child \in {"running", "exited"}
  /\ ~codex.lateError
  /\ codex' = [codex EXCEPT !.lateError = TRUE, !.events = @ \cup {"error"}]
  /\ UNCHANGED <<parseVars, machineVars, gitVars>>

\* the Codex server alone, the Aider server idle
CodexInit ==
  /\ CodexIdle
  /\ ParseIdle
  /\ GitIdle
  /\ history = NoFile
  /\ call = [i \in Calls |-> IdleCall]
  /\ thread = 0
  /\ appended = 0
  /\ disturbed = 0

CodexNext ==
  \/ CodexToolCall
  \/ CodexOutput
  \/ CodexExit
  \/ CodexOnClose
  \/ CodexOnError
  \/ CodexRespond

SpecCodex == CodexInit /\ [][CodexNext]_vars

\* one call of either server (they are separate programs, so one of them
\* is followed at a time), with the late 'error' event
AiderToolCall == CodexIdle /\ ToolCall(1)

CodexToolCallAlone == (\A i \in Calls : call[i].pc = "idle") /\ CodexToolCall

EventsNext ==
  \/ AiderToolCall
  \/ CapturePreSize(1)
  \/ Spawn(1)
  \/ ChildAppend(1)
  \/ ChildExit(1)
  \/ EmitError(1)
  \/ OnClose(1)
  \/ OnError(1)
  \/ SettlingDelay(1)
  \/ ExtractNewChatContent(1)
  \/ ReturnResult(1)
  \/ CodexToolCallAlone
  \/ CodexOutput
  \/ CodexExit
  \/ CodexEmitError
  \/ CodexOnClose
  \/ CodexOnError
  \/ CodexRespond

SpecEvents == Init /\ [][EventsNext]_vars

\* ------------------------------------------------------ root resolution
\* findGitRoot and the choice of the chat-history path.  An absolute path
\* is the sequence of its components, "/" is the empty sequence; gitDirs
\* are the directories that hold a ".git" entry.

MaxDepth == 2

Names == {"a", "b"}

Dirs == UNION {[1..n -> Names] : n \in 0..MaxDepth}

Root == << >>

\* path.dirname: dirname("/") is "/"
dirname(d) == IF d = Root THEN Root ELSE SubSeq(d, 1, Len(d) - 1)

\* path.join(d, name)
join(d, name) == d \o <<name>>

ChatHistoryName == ".aider.chat.history.md"

GitInit ==
  /\ startDir \in Dirs
  /\ gitDirs \in SUBSET Dirs
  /\ dir = startDir
  /\ gitStage = "walk"
  /\ gitRoot = Null
  /\ chatHistoryPath = Null
  /\ ParseIdle
  /\ CodexIdle
  /\ history = NoFile
  /\ call = [i \in Calls |-> IdleCall]
  /\ thread = 0
  /\ appended = 0
  /\ disturbed = 0

\* one test of the while condition of findGitRoot and what follows it
FindGitRoot ==
  /\ gitStage = "walk"
  /\ IF dir # Root /\ dir # dirname(dir)
     THEN IF dir \in gitDirs
          THEN /\ gitRoot' = dir
               /\ gitStage' = "returned"
               /\ UNCHANGED dir
          ELSE /\ dir' = dirname(dir)
               /\ UNCHANGED <<gitRoot, gitStage>>
     ELSE /\ gitRoot' = Null
          /\ gitStage' = "returned"
          /\ UNCHANGED dir
  /\ UNCHANGED <<startDir, gitDirs, chatHistoryPath, parseVars, machineVars, codexVars>>

\* const chatHistoryDir = gitRoot || workingDir, and the join
ResolveChatHistoryPath ==
  /\ gitStage = "returned"
  /\ LET chatHistoryDir == IF gitRoot # Null THEN gitRoot ELSE startDir
     IN chatHistoryPath' = join(chatHistoryDir, ChatHistoryName)
  /\ gitStage' = "resolved"
  /\ UNCHANGED <<startDir, gitDirs, dir, gitRoot, parseVars, machineVars, codexVars>>

GitNext ==
  \/ FindGitRoot
  \/ ResolveChatHistoryPath

SpecGit == GitInit /\ [][GitNext]_vars

\* ------------------------------------------------ classifier properties

\* positions of an opening tag right after a newline that is closed later
BlockStarts(s) ==
  {i \in 1..(Len(s) - 1) :
     /\ s[i] = NL
     /\ s[i + 1] = OPEN
     /\ \E c \in (i + 2)..Len(s) : s[c] = CLOSE}

\* the closing tag of the block that starts at i
BlockClose(s, i) == Min({c \in (i + 2)..Len(s) : s[c] = CLOSE})

BlockBody(s, i) == SubSeq(s, i + 2, BlockClose(s, i) - 1)

BlocksDisjoint(s) ==
  \A i, j \in BlockStarts(s) : i < j => BlockClose(s, i) < j

\* positions where error pattern k matches
ErrorStarts(k, s) == {i \in 1..Len(s) : ErrorAt(k, s, i).from # 0}

HasErrorMatch(s) == \E k \in ErrorPatterns : ErrorStarts(k, s) # {}

Classified == stage # "suffix"

\* C1: a suffix with a well-formed summary block and an error-pattern match
\* is classified 'summary', never 'error', wherever the error text is.
C1_MarkerPrecedence ==
  (Classified /\ BlockStarts(chatContent) # {} /\ HasErrorMatch(chatContent))
    => recoveredContent.type = "summary"

\* an error signature after the closing tag of the only block
C1_Witness ==
  /\ Classified
  /\ \E i \in BlockStarts(chatContent) : \E k \in ErrorPatterns :
       \E e \in ErrorStarts(k, chatContent) : e > BlockClose(chatContent, i)
  /\ recoveredContent.type = "summary"

\* C2: with two or more non-overlapping well-formed blocks the result is the
\* trimmed body of the block that occurs last.
C2_LastBlockWins ==
  (/\ Classified
   /\ Cardinality(BlockStarts(chatContent)) >= 2
   /\ BlocksDisjoint(chatContent))
    => recoveredContent =
         [type |-> "summary",
          content |-> Trim(BlockBody(chatContent, Max(BlockStarts(chatContent))))]

\* two blocks with different bodies, the later one returned
C2_Witness ==
  /\ Classified
  /\ Cardinality(BlockStarts(chatContent)) = 2
  /\ BlocksDisjoint(chatContent)
  /\ Trim(BlockBody(chatContent, Min(BlockStarts(chatContent))))
       # Trim(BlockBody(chatContent, Max(BlockStarts(chatContent))))
  /\ recoveredContent.content
       = Trim(BlockBody(chatContent, Max(BlockStarts(chatContent))))
  /\ recoveredContent.content # << >>
  /\ Trim(BlockBody(chatContent, Min(BlockStarts(chatContent)))) # << >>

\* the pattern of highest priority that matches somewhere in s
SelectedPattern(s) ==
  CHOOSE k \in ErrorPatterns :
    /\ ErrorStarts(k, s) # {}
    /\ \A j \in 1..(k - 1) : ErrorStarts(j, s) = {}

\* the match of pattern k in matchAll order that starts last
LastMatchOf(k, s) ==
  LET ms == MatchAll(k, s)
  IN CHOOSE m \in {ms[n] : n \in 1..Len(ms)} :
       \A n \in 1..Len(ms) : ms[n].from <= m.from

\* C3: without a summary block the error patterns are tried in array order,
\* the first one with a match is selected and its last match is returned,
\* also when a pattern of lower priority matches later in the suffix.
C3_PatternOrder ==
  (Classified /\ BlockStarts(chatContent) = {} /\ HasErrorMatch(chatContent))
    => LET k == SelectedPattern(chatContent)
           m == LastMatchOf(k, chatContent)
       IN recoveredContent =
            [type |-> "error",
             content |-> Trim(CollapseSpace(MatchText(chatContent, m)))]

\* the selected pattern has two matches with different text and a pattern of
\* lower priority matches after the start of the last of them
C3_Witness ==
  /\ Classified
  /\ recoveredContent.type = "error"
  /\ LET k == SelectedPattern(chatContent)
         m == LastMatchOf(k, chatContent)
     IN /\ Len(MatchAll(k, chatContent)) >= 2
        /\ MatchText(chatContent, MatchAll(k, chatContent)[1])
             # MatchText(chatContent, m)
        /\ \E j \in (k + 1)..5 : \E e \in ErrorStarts(j, chatContent) : e > m.from

\* ------------------------------------------------ invocation properties

IsPrefix(s, t) == Len(s) <= Len(t) /\ s = SubSeq(t, 1, Len(s))

Did(i, name) == \E n \in 1..Len(call[i].steps) : call[i].steps[n] = name

\* the child closed with code 0 and the call has returned
ReturnedAfterExit0(i) == call[i].pc = "done" /\ call[i].settled = "resolved"

\* C4: exit code 0 with an error signature and no summary block in the
\* window gives error = the extracted text, summary null, executionSuccessful
\* false and the 'Error Detected' text.
C4_ErrorSurfaced ==
  \A i \in Calls :
    (/\ ReturnedAfterExit0(i)
     /\ Did(i, "classify")
     /\ BlockStarts(call[i].window) = {}
     /\ HasErrorMatch(call[i].window))
      => LET w == call[i].window
             extracted == Trim(CollapseSpace(
                            MatchText(w, LastMatchOf(SelectedPattern(w), w))))
         IN /\ call[i].result =
                 [summary |-> Null, error |-> extracted,
                  executionSuccessful |-> FALSE]
            /\ extracted # << >>
            /\ call[i].text = <<ErrorDetected>> \o extracted

\* the window is a traceback that ends in 'ValueError: ...'
C4_Witness ==
  \E i \in Calls :
    /\ ReturnedAfterExit0(i)
    /\ call[i].window = TracebackText
    /\ call[i].result.error = <<UW, ERR, SP, LW, SP, LW>>
    /\ call[i].text = <<ErrorDetected, UW, ERR, SP, LW, SP, LW>>

\* C5: the chat history absent before and after a run that exits with code 0
\* gives summary = null, error = null, executionSuccessful = false and the
\* ran-with-no-summary text, without a throw.
C5_AbsentLogGivesNone ==
  \A i \in Calls :
    (/\ ReturnedAfterExit0(i)
     /\ ~call[i].existedBefore
     /\ ~call[i].existedAfter)
      => /\ Did(i, "result")
         /\ call[i].result = NoResult
         /\ call[i].text = <<RanNoSummary>>

\* C6: a failed stat or read of the log never makes a run that exited with
\* code 0 fail: preSize 0, an empty window, and one of the summary,
\* error-detected or no-summary texts.
C6_TailingNeverFails ==
  \A i \in Calls :
    (ReturnedAfterExit0(i) /\ (call[i].statFailed \/ call[i].readFailed))
      => /\ call[i].statFailed => call[i].preSize = 0
         /\ call[i].readFailed => call[i].window = << >>
         /\ call[i].text[1] \in {ErrorDetected, SummaryAvailable, RanNoSummary}

\* between the capture of preSize and the read of the log
InWindowInterval(i) ==
  Did(i, "preSize") /\ ~Did(i, "read") /\ call[i].pc # "done"

\* C7: the intervals from preSize capture to the post-run read of two calls
\* on the same chat history never overlap.
C7_WindowsSerialized ==
  \A i, j \in Calls :
    i # j => ~(InWindowInterval(i) /\ InWindowInterval(j))

StepOrder == <<"preSize", "spawn", "close", "delay", "read", "classify", "result">>

\* C8: one invocation takes its steps in the order preSize, spawn, close,
\* delay, read, classify, result: preSize before the child exists, the log
\* read only after the child has closed and the delay has elapsed.
C8_StepOrder ==
  \A i \in Calls :
    /\ IsPrefix(call[i].steps, StepOrder)
    /\ call[i].child # "none" => Did(i, "preSize")
    /\ Did(i, "read") => (call[i].child = "exited" /\ call[i].events = {})

\* a call that took every step
C8_Witness == \E i \in Calls : call[i].steps = StepOrder

\* C9: executionSuccessful is true exactly when summary is non-null and error
\* is null; a 'none' classification gives false with both fields null.
C9_SuccessIffSummaryOnly ==
  \A i \in Calls :
    Did(i, "result")
      => /\ call[i].result.executionSuccessful
              <=> (call[i].result.summary # Null /\ call[i].result.error = Null)
         /\ call[i].recovered.type = "none" => call[i].result = NoResult
         /\ call[i].result.executionSuccessful => call[i].recovered.type = "summary"

\* exit code 0 and a window without marker or error signature
C9_Witness ==
  \E i \in Calls :
    /\ ReturnedAfterExit0(i)
    /\ Did(i, "result")
    /\ call[i].window = PlainText
    /\ call[i].recovered.type = "none"
    /\ call[i].result = NoResult

\* C10: one outcome tag per invocation: the classifier's type is 'summary',
\* 'error' or 'none', and no result has both summary and error non-null.
C10_OneOutcome ==
  \A i \in Calls :
    /\ Did(i, "classify") => call[i].recovered.type \in {"summary", "error", "none"}
    /\ Did(i, "result")
         => ~(call[i].result.summary # Null /\ call[i].result.error # Null)

\* a window with a summary block and an error signature, one tag returned
C10_Witness ==
  \E i \in Calls :
    /\ Did(i, "result")
    /\ BlockStarts(call[i].window) # {}
    /\ HasErrorMatch(call[i].window)
    /\ call[i].result.summary # Null
    /\ call[i].result.error = Null

\* ------------------------------------------------ process failure paths

\* C11: when the child exits with a nonzero code, the failure carries the
\* exit code and the captured stderr; the call returns it under
\* "Error executing Aider <mode>: " without the settling delay, without
\* reading the chat history and without classifying anything.
C11_NonzeroExitPropagates ==
  \A i \in Calls :
    (call[i].child = "exited" /\ call[i].code # 0 /\ Did(i, "close")) =>
      /\ call[i].settled = "rejected"
      /\ call[i].pc = "done"
      /\ call[i].text =
           <<ErrorExecuting, Mode(call[i].architectMode), ": ",
             ExitedWithCode, CodeText(call[i].code), ": ">> \o call[i].stderr
      /\ ~Did(i, "delay")
      /\ ~Did(i, "read")
      /\ ~Did(i, "classify")
      /\ ~Did(i, "result")
      /\ call[i].recovered = Unset
      /\ call[i].result = NoResult

C11_Witness ==
  \E i \in Calls :
    /\ call[i].child = "exited"
    /\ call[i].code = 1
    /\ call[i].pc = "done"
    /\ call[i].architectMode
    /\ call[i].text[Len(call[i].text)] = CommandNotFound

\* C12: when the executable cannot be started, the call returns
\* "Failed to spawn Aider CLI: <message>" under the error-executing prefix;
\* it is reported neither as a nonzero exit nor as a run without summary,
\* and the chat history is not read.
C12_SpawnFailureReported ==
  \A i \in Calls :
    call[i].child = "failed" =>
      /\ call[i].settled # "resolved"
      /\ call[i].pc \in {"await", "done"}
      /\ call[i].pc = "done" =>
            /\ call[i].settled = "rejected"
            /\ call[i].text =
                 <<ErrorExecuting, Mode(call[i].architectMode), ": ",
                   FailedToSpawn, SpawnENOENT>>
      /\ ~Did(i, "delay")
      /\ ~Did(i, "read")
      /\ call[i].result = NoResult

C12_Witness ==
  \E i \in Calls :
    /\ call[i].child = "failed"
    /\ call[i].pc = "done"
    /\ call[i].events = {}
    /\ Did(i, "close")

\* ------------------------------------------------------ the log window
\* lengthBefore is the length of the chat history when preSize was captured
\* and epochBefore the number of truncations and removals until then;
\* sizeAfter is the byte size of the file read back and appendedText what
\* was appended in between (Null when the file was truncated or removed).

ReadBack(i) == Did(i, "classify")

\* C13: when the file read back is shorter than preSize, the window is the
\* empty string, the classification is 'none' with empty content, and the
\* call ends with the ran-without-summary message, not with a caught error.
C13_ShrunkLogGivesNone ==
  \A i \in Calls :
    (ReadBack(i) /\ call[i].sizeAfter < call[i].preSize) =>
      /\ call[i].window = << >>
      /\ call[i].recovered = [type |-> "none", content |-> << >>]
      /\ call[i].pc = "done" =>
            /\ call[i].result.summary = Null
            /\ call[i].result.error = Null
            /\ call[i].text = <<RanNoSummary>>

C13_Witness ==
  \E i \in Calls :
    /\ ReadBack(i)
    /\ call[i].sizeAfter > 0
    /\ call[i].sizeAfter < call[i].preSize
    /\ call[i].pc = "done"

\* the file was only appended to between the capture of preSize and the read
OnlyGrew(i) ==
  /\ ReadBack(i)
  /\ ~call[i].statFailed
  /\ call[i].appendedText # Null

\* C14: when the file only grows between the two reads, the window is
\* exactly the text appended after preSize was captured, multi-byte
\* characters before the offset included.
C14_WindowIsAppendedText ==
  \A i \in Calls :
    OnlyGrew(i) =>
      call[i].window = call[i].appendedText

\* ------------------------------------------------ which error is reported

\* the error-pattern matches of s, each with its pattern
ErrorMatches(s) ==
  UNION {{[pattern |-> k, match |-> MatchAll(k, s)[n]] :
            n \in 1..Len(MatchAll(k, s))} : k \in ErrorPatterns}

\* what the classifier reports for a match
Reported(s, m) == Trim(CollapseSpace(Trim(MatchText(s, m))))

\* C15 as stated: without a summary block and with two or more
\* error-pattern matches, the reported text is the match that occurs last in
\* the window: no match of any pattern starts after it.
C15_LastSignatureReported ==
  (/\ Classified
   /\ BlockStarts(chatContent) = {}
   /\ Cardinality(ErrorMatches(chatContent)) >= 2)
    => \E r \in ErrorMatches(chatContent) :
         /\ recoveredContent = [type |-> "error",
                                content |-> Reported(chatContent, r.match)]
         /\ \A o \in ErrorMatches(chatContent) : o.match.from <= r.match.to

\* C15 amended: the reported text is a match of the first pattern in array
\* order that matches, and no occurrence of that pattern starts after it;
\* matches of patterns of lower priority that occur later are not reported.
C15_LastOfSelectedPattern ==
  (/\ Classified
   /\ BlockStarts(chatContent) = {}
   /\ Cardinality(ErrorMatches(chatContent)) >= 2)
    => \E r \in ErrorMatches(chatContent) :
         /\ recoveredContent = [type |-> "error",
                                content |-> Reported(chatContent, r.match)]
         /\ \A j \in 1..(r.pattern - 1) : ErrorStarts(j, chatContent) = {}
         /\ \A e \in ErrorStarts(r.pattern, chatContent) : e <= r.match.to

\* a pattern of lower priority matches after the end of the reported match
C15_Witness ==
  /\ Classified
  /\ BlockStarts(chatContent) = {}
  /\ recoveredContent.type = "error"
  /\ \E r, o \in ErrorMatches(chatContent) :
       /\ r.pattern = SelectedPattern(chatContent)
       /\ recoveredContent.content = Reported(chatContent, r.match)
       /\ o.pattern > r.pattern
       /\ o.match.from > r.match.to
       /\ Reported(chatContent, o.match) # recoveredContent.content

\* ------------------------------------------------------ what is returned

\* the call got past the argument checks of executeAiderCommand
Validated(i) == Did(i, "preSize")

FourKinds == {ErrorDetected, SummaryAvailable, RanNoSummary, ErrorExecuting}

\* C16 as stated: the text of every finished call starts one of the four
\* messages.
C16_AlwaysOneOfFour ==
  \A i \in Calls :
    call[i].pc = "done" =>
      /\ call[i].text # << >>
      /\ call[i].text[1] \in FourKinds

\* C16 amended: a call that passes the argument checks returns exactly one
\* of the four messages, chosen by the outcome of the run; a call that fails
\* them returns one of the two ERROR refusals and spawns nothing.
C16_FourKindsAfterValidation ==
  \A i \in Calls :
    call[i].pc = "done" =>
      /\ call[i].text # << >>
      /\ IF Validated(i)
         THEN LET threw == call[i].settled = "rejected"
                             \/ call[i].recovered = EmptyString
                  kind == call[i].text[1]
              IN /\ kind \in FourKinds
                 /\ kind = ErrorExecuting <=> threw
                 /\ kind = ErrorDetected <=>
                      (~threw /\ Truthy(call[i].result.error))
                 /\ kind = SummaryAvailable <=>
                      (/\ ~threw
                       /\ ~Truthy(call[i].result.error)
                       /\ Truthy(call[i].result.summary))
                 /\ kind = RanNoSummary <=>
                      (/\ ~threw
                       /\ ~Truthy(call[i].result.error)
                       /\ ~Truthy(call[i].result.summary))
         ELSE /\ call[i].text \in {<<RootForbidden>>, <<TooManyFiles>>}
              /\ call[i].child = "none"
              /\ call[i].steps = << >>

\* one call refused by the argument checks, another one with a summary
C16_Witness ==
  \E i, j \in Calls :
    /\ call[i].pc = "done"
    /\ call[i].text = <<RootForbidden>>
    /\ call[j].pc = "done"
    /\ call[j].text[1] = SummaryAvailable

\* C17: executeAiderCommand never rejects; every finished call holds one
\* text, and a failure of the process runner or of the log tailer shows up
\* in it under the error-executing prefix.
C17_NeverRejects ==
  \A i \in Calls :
    /\ call[i].pc # "threw"
    /\ call[i].pc = "done" => call[i].text # << >>
    /\ call[i].settled = "rejected" =>
         /\ call[i].pc = "done"
         /\ SubSeq(call[i].text, 1, 3) =
              <<ErrorExecuting, Mode(call[i].architectMode), ": ">>
         /\ call[i].text[4] \in {ExitedWithCode, FailedToSpawn}
    /\ (call[i].recovered = EmptyString /\ call[i].pc \notin {"analyze"}) =>
         /\ call[i].pc = "done"
         /\ call[i].text =
              <<ErrorExecuting, Mode(call[i].architectMode), ": ",
                TypeErrorLength>>

\* a failed read of the chat history ends in a text, not in a rejection
C17_Witness ==
  \E i \in Calls :
    /\ call[i].readFailed
    /\ call[i].pc = "done"
    /\ call[i].text[1] = ErrorExecuting

\* how many times the call has spawned a child
Spawns(i) ==
  Cardinality({n \in 1..Len(call[i].steps) : call[i].steps[n] = "spawn"})

\* C18: a call spawns at most one child; after a failed spawn or a nonzero
\* exit it ends without spawning again, and a child is only ever started
\* when the call has none.
C18_SingleAttempt ==
  \A i \in Calls :
    /\ Spawns(i) <= 1
    /\ call[i].child # "none" <=> Spawns(i) = 1
    /\ call[i].settled = "rejected" =>
         /\ call[i].pc = "done"
         /\ call[i].child \in {"failed", "exited"}
    /\ call[i].pc = "spawn" => call[i].child = "none"

C18_Witness ==
  \E i \in Calls :
    /\ call[i].settled = "rejected"
    /\ call[i].child = "exited"
    /\ call[i].events = {}
    /\ call[i].pc = "done"
    /\ Spawns(i) = 1

\* ------------------------------------------------------ root resolution

\* the directory itself and every directory above it, "/" included
Ancestors(d) == {SubSeq(d, 1, n) : n \in 0..Len(d)}

\* the deepest of a non-empty set of ancestors of one directory
Nearest(ds) == CHOOSE d \in ds : \A e \in ds : Len(e) <= Len(d)

\* C19: findGitRoot returns the nearest directory among the working
\* directory and all its ancestors, the filesystem root included, that
\* holds a ".git" entry; when there is none it returns null and the chat
\* history is placed directly under the working directory.  The working
\* directory "/" is left out: executeAiderCommand refuses it.
C19_NearestAncestorWithGit ==
  (gitStage = "resolved" /\ startDir # Root) =>
    LET marked == Ancestors(startDir) \cap gitDirs
    IN IF marked = {}
       THEN /\ gitRoot = Null
            /\ chatHistoryPath = join(startDir, ChatHistoryName)
       ELSE gitRoot = Nearest(marked)

\* ------------------------------------------------ where a block may start

\* opening tags of t that start a line and are closed later; e is the last
\* character of the file before t (the empty string at the start of a file)
LineStartBlocks(e, t) ==
  {p \in 1..Len(t) :
     /\ t[p] = OPEN
     /\ IF p = 1 THEN e = NL ELSE t[p - 1] = NL
     /\ \E c \in (p + 1)..Len(t) : t[c] = CLOSE}

\* C21: a block is recognised exactly when its opening tag is preceded by a
\* newline in the file, also when that newline is the last character
\* written before preSize.  Stated for calls whose window is exactly the
\* text appended during the call.
C21_LineStartTagRecognised ==
  \A i \in Calls :
    (OnlyGrew(i) /\ call[i].window = call[i].appendedText) =>
      (call[i].recovered.type = "summary"
         <=> LineStartBlocks(call[i].endBefore, call[i].appendedText) # {})

\* line-start opening tags followed by another line-start opening tag
\* before the first closing tag
UnclosedStarts(s) ==
  {i \in BlockStarts(s) :
     \E j \in BlockStarts(s) : i < j /\ j < BlockClose(s, i)}

\* t holds an opening tag at its start or right after a newline
HasLineStartTag(t) ==
  \E p \in 1..Len(t) : t[p] = OPEN /\ (p = 1 \/ t[p - 1] = NL)

\* C22: when a line-start opening tag is not closed before a later complete
\* block, the summary is the body of a complete block alone and holds no
\* opening tag at a line start.
C22_UnclosedTagNotReturned ==
  (Classified /\ UnclosedStarts(chatContent) # {}) =>
    /\ recoveredContent.type = "summary"
    /\ ~HasLineStartTag(recoveredContent.content)
    /\ \E j \in BlockStarts(chatContent) \ UnclosedStarts(chatContent) :
         recoveredContent.content = Trim(BlockBody(chatContent, j))

\* ------------------------------------------------ shape of the texts

\* no white space at either end
Trimmed(t) == t = << >> \/ (~IsSpace(t[1]) /\ ~IsSpace(t[Len(t)]))

\* the only white space between the ends is single space characters
SingleSpaced(t) ==
  /\ \A p \in 1..Len(t) : t[p] # NL
  /\ \A p \in 1..(Len(t) - 1) : ~(IsSpace(t[p]) /\ IsSpace(t[p + 1]))

\* C23: an error text is non-empty, trimmed and single-spaced; a summary
\* text is trimmed and holds no closing tag.
C23_TextShape ==
  Classified =>
    /\ recoveredContent.type = "error" =>
         /\ recoveredContent.content # << >>
         /\ Trimmed(recoveredContent.content)
         /\ SingleSpaced(recoveredContent.content)
    /\ recoveredContent.type = "summary" =>
         /\ Trimmed(recoveredContent.content)
         /\ \A p \in 1..Len(recoveredContent.content) :
              recoveredContent.content[p] # CLOSE

\* an error match that spans a line break, reported on one line
C23_Witness ==
  /\ Classified
  /\ recoveredContent.type = "error"
  /\ LET m == LastMatchOf(SelectedPattern(chatContent), chatContent)
     IN /\ \E p \in (m.from + 1)..(m.to - 1) : chatContent[p] = NL
        /\ recoveredContent.content # Trim(MatchText(chatContent, m))

\* the matches of error pattern k in s, as a set
MatchesOf(k, s) == {MatchAll(k, s)[n] : n \in 1..Len(MatchAll(k, s))}

\* the only error text of s is one or more HTTP status lines: pattern 5
\* matches, and whatever another pattern matches lies inside such a match
OnlyHttpLines(s) ==
  /\ MatchAll(0, s) = << >>
  /\ MatchAll(5, s) # << >>
  /\ \A k \in 1..4 : \A m \in MatchesOf(k, s) :
       \E h \in MatchesOf(5, s) : h.from <= m.from /\ m.to <= h.to

\* C24: a suffix whose only error text is an HTTP status line is reported
\* by the HTTP pattern, with the whole line as its text.
C24_HttpLineReported ==
  (Classified /\ OnlyHttpLines(chatContent)) =>
    /\ recoveredContent.type = "error"
    /\ SelectedPattern(chatContent) = 5
    /\ recoveredContent.content =
         Trim(CollapseSpace(Trim(MatchText(chatContent,
                                           LastMatch(MatchAll(5, chatContent))))))

\* ------------------------------------- classification and the result

Analyzed == stage \in {"analyzed", "formatted"}

Formatted == stage = "formatted"

\* C25 as stated: a 'summary' classification always gives a non-null summary
\* and successful = TRUE, an 'error' classification a non-null error, and
\* neither is reported as 'no summary was generated'.
C25_MatchAlwaysReported ==
  Analyzed =>
    /\ recoveredContent.type = "summary" =>
         /\ analysis.summary # Null
         /\ analysis.successful
         /\ Formatted => formattedOutput # <<RanNoSummary>>
    /\ recoveredContent.type = "error" =>
         /\ analysis.error # Null
         /\ Formatted => formattedOutput # <<RanNoSummary>>

\* C25: a 'summary' classification with a non-empty body gives that body as
\* the summary, successful = TRUE and the summary text; an 'error'
\* classification gives its text as the error and the error text; a block
\* with an empty body gives summary = null, error = null, successful = FALSE
\* and the no-summary text.
C25_NonEmptyMatchReported ==
  Analyzed =>
    /\ (recoveredContent.type = "summary" /\ recoveredContent.content # << >>) =>
         /\ analysis = [summary |-> recoveredContent.content, error |-> Null,
                        successful |-> TRUE]
         /\ Formatted =>
              formattedOutput = <<SummaryAvailable>> \o recoveredContent.content
    /\ recoveredContent.type = "error" =>
         /\ analysis = [summary |-> Null, error |-> recoveredContent.content,
                        successful |-> FALSE]
         /\ Formatted =>
              formattedOutput = <<ErrorDetected>> \o recoveredContent.content
    /\ (recoveredContent.type = "summary" /\ recoveredContent.content = << >>) =>
         /\ analysis = NoAnalysis
         /\ Formatted => formattedOutput = <<RanNoSummary>>

\* a matched block with an empty body, reported as no summary
C25_Witness ==
  /\ Formatted
  /\ recoveredContent = [type |-> "summary", content |-> << >>]
  /\ MatchAll(0, chatContent) # << >>
  /\ formattedOutput = <<RanNoSummary>>

\* ------------------------------------------------- the two variants

AnalyzedEither ==
  stage \in {"analyzed", "formatted", "summarize:analyzed", "summarize:formatted"}

FormattedEither == stage \in {"formatted", "summarize:formatted"}

\* C26: in both variants a successful result has a non-empty summary, and
\* the completed-successfully-without-summary text is never produced.
C26_SuccessHasSummary ==
  /\ AnalyzedEither => (analysis.successful => Truthy(analysis.summary))
  /\ FormattedEither => formattedOutput # <<SuccessNoSummary>>

\* a successful result, formatted
C26_Witness ==
  /\ FormattedEither
  /\ analysis.successful
  /\ formattedOutput[1] = SummaryAvailable

\* the body of the last complete <summarize> block of s
LastSummarizeBody(s) == Trim(LastMatch(SummarizeBlocks(s)).cap)

\* C30: in the <summarize> variant a text with one or more complete blocks
\* gives the trimmed body of the last block, a successful result and the
\* summary text.
C30_SummarizeBlockReturned ==
  (/\ stage = "summarize:formatted"
   /\ SummarizeBlocks(chatContent) # << >>
   /\ LastSummarizeBody(chatContent) # << >>)
    => /\ recoveredContent.content = LastSummarizeBody(chatContent)
       /\ analysis.successful
       /\ formattedOutput = <<SummaryInline>> \o LastSummarizeBody(chatContent)

\* ------------------------------------------------ refused tool calls

\* call i was made with arguments that executeAiderCommand refuses
Refused(i) ==
  /\ call[i].pc # "idle"
  /\ (call[i].workingDir = "/" \/ call[i].files > MaxFiles)

\* C27: a call for the directory "/" or with more than MaxFiles files
\* returns its refusal at once: no child, no preSize taken, no read of the
\* chat history, no step of the run.
C27_RefusedBeforeAnythingRuns ==
  \A i \in Calls :
    Refused(i) =>
      /\ call[i].pc = "done"
      /\ call[i].text = IF call[i].workingDir = "/" THEN <<RootForbidden>>
                        ELSE <<TooManyFiles>>
      /\ call[i].steps = << >>
      /\ call[i].child = "none"
      /\ call[i].events = {}
      /\ call[i].settled = "pending"
      /\ call[i].preSize = 0
      /\ ~call[i].existedBefore
      /\ ~call[i].existedAfter
      /\ call[i].window = << >>
      /\ call[i].recovered = Unset
      /\ call[i].result = NoResult

\* a call with too many files refused while the log is not empty and
\* another call has run its child
C27_Witness ==
  \E i, j \in Calls :
    /\ Refused(i)
    /\ call[i].workingDir # "/"
    /\ call[i].text = <<TooManyFiles>>
    /\ history.exists
    /\ history.content # << >>
    /\ Did(j, "close")

\* ------------------------------------------------- promise settlement

\* what call i reports once its promise is settled
Outcome(i) ==
  IF call[i].settled = "rejected" THEN <<"rejected", call[i].text>>
  ELSE <<call[i].settled, << >>>>

\* a decided outcome is kept by the step
OutcomeKept ==
  /\ \A i \in Calls :
       call[i].settled # "pending" =>
         /\ call'[i].settled = call[i].settled
         /\ call[i].settled = "rejected" =>
              (call'[i].text = call[i].text /\ call'[i].pc = "done")
  /\ codex.settled # "pending" =>
       (codex'.settled = codex.settled /\ codex'.message = codex.message)

\* C28: the outcome of one executeAider (and executeCodexCommand) call is
\* decided once: whichever of 'error' and 'close' is handled first decides
\* it, the other one never changes it, and a child that failed to spawn is
\* never reported as a success.
C28_DecidedOnce ==
  /\ [](\A i \in Calls : call[i].child = "failed" => call[i].settled # "resolved")
  /\ [](codex.child = "failed" => codex.settled # "resolved")
  /\ [][OutcomeKept]_vars

\* a failed spawn: 'error' decided, and 'close' with its negative code,
\* handled after it, left the spawn failure as the outcome
C28_Witness ==
  \E i \in Calls :
    /\ call[i].child = "failed"
    /\ call[i].events = {}
    /\ Did(i, "close")
    /\ Outcome(i) = <<"rejected",
                      CaughtText(call[i].architectMode, <<FailedToSpawn, SpawnENOENT>>)>>

\* ------------------------------------------------- Codex tool answers

ClosedWithZero == codex.child = "exited" /\ codex.code = "0"

\* C29: a Codex tool handler answers isError exactly when the child did not
\* close with exit code 0; otherwise the answer is the title, the captured
\* stdout and, only when stderr is non-empty, the Errors heading and the
\* captured stderr; every settled call is answered, none rejects.
C29_IsErrorUnlessExitZero ==
  /\ codex.pc \in {"idle", "await", "done"}
  /\ codex.pc = "done" =>
       /\ codex.response.isError <=> ~ClosedWithZero
       /\ ClosedWithZero =>
            /\ SubSeq(codex.response.text, 1, 1 + Len(codex.stdout))
                 = <<Title(codex.tool)>> \o codex.stdout
            /\ Drop(codex.response.text, 1 + Len(codex.stdout))
                 = IF codex.stderr = << >> THEN << >>
                   ELSE <<ErrorsHeading>> \o codex.stderr
       /\ ~ClosedWithZero => codex.response.text[1] = ErrorTitle(codex.tool)

\* a child killed by a signal after it wrote to stdout, answered as an error
C29_Witness ==
  /\ codex.pc = "done"
  /\ codex.code = "null"
  /\ codex.stdout # << >>
  /\ codex.response.isError
  /\ codex.response.text =
       <<ErrorTitle(codex.tool), FailedWithCode, "null", ": ">> \o codex.stderr

============================================================================
